---- MODULE Spec2Model ----
(***************************************************************************)
(* Model of src/src/application.rs: the renderer State (new, resize,       *)
(* input, update, render) and the winit event loop closure of run() that   *)
(* dispatches window events to it.                                         *)
(*                                                                         *)
(* f64 values are modelled as exact reduced fractions <<n, d>> with d > 0; *)
(* the IEEE results of a division by 0.0 are <<1, 0>> (+inf), <<-1, 0>>    *)
(* (-inf) and <<0, 0>> (NaN).                                              *)
(***************************************************************************)
EXTENDS Integers, Sequences, FiniteSets, TLC

VARIABLES
    phase,          \* "running" | "exited" (event loop asked to exit) | "panicked"
    window_size,    \* the window's inner size as last reported (inner_size / Resized)
    size,           \* State.size
    config,         \* State.config (wgpu::SurfaceConfiguration)
    clear_color,    \* State.clear_color
    surface_config, \* configuration last applied to State.surface by configure()
    redraw_requested, \* window.request_redraw() is pending
    event,          \* the event the closure handled last: <<kind, argument>>
    tick,           \* parity of the number of events the closure has handled
    configures,     \* surface.configure() calls made by the last handler
    frame,          \* GPU operations issued by the last handler, in order
    ret             \* value returned by the State method the last handler called

vars == <<phase, window_size, size, config, clear_color, surface_config,
          redraw_requested, event, tick, configures, frame, ret>>

----------------------------------------------------------------------------
(* Bounds of the model *)

MaxDim == 2

\* window sizes delivered by the windowing library (u32 x u32), zero included
Sizes == ((0..MaxDim) \X (0..MaxDim)) \cup {<<800, 600>>}

\* cursor positions delivered by CursorMoved
Positions == ((0..MaxDim) \X (0..MaxDim)) \cup {<<800, 600>>}

\* results of Surface::get_current_texture: Ok or a wgpu::SurfaceError
Acquisitions == {"Ok", "Timeout", "Outdated", "Lost", "OutOfMemory"}

\* surface capabilities reported by surface.get_capabilities(&adapter)
Capabilities ==
    {[formats |-> <<"Bgra8UnormSrgb", "Bgra8Unorm">>,
      present_modes |-> <<"Fifo", "Mailbox">>,
      alpha_modes |-> <<"Opaque">>],
     [formats |-> <<"Bgra8Unorm", "Rgba8UnormSrgb">>,
      present_modes |-> <<"Mailbox", "Fifo">>,
      alpha_modes |-> <<"PreMultiplied", "Opaque">>],
     [formats |-> <<"Bgra8Unorm">>,
      present_modes |-> <<"Fifo">>,
      alpha_modes |-> <<"Opaque">>]}

----------------------------------------------------------------------------
(* f64 arithmetic on the values the program computes *)

Abs(n) == IF n < 0 THEN -n ELSE n

Sgn(n) == IF n < 0 THEN -1 ELSE IF n = 0 THEN 0 ELSE 1

RECURSIVE GCD(_, _)
GCD(a, b) == IF b = 0 THEN a ELSE GCD(b, a % b)

\* x as f64 / w as f64, for an integral x and a u32 w
F64Div(x, w) ==
    IF w = 0 THEN <<Sgn(x), 0>>
    ELSE LET g == GCD(Abs(x), w) IN <<x \div g, w \div g>>

----------------------------------------------------------------------------
(* Geometry *)

INDICES == <<0, 1, 4, 1, 2, 4, 2, 3, 4>>

num_indices == Len(INDICES)

----------------------------------------------------------------------------
(* State::new *)

is_srgb(f) == f \in {"Bgra8UnormSrgb", "Rgba8UnormSrgb"}

RECURSIVE FirstSrgb(_, _)
FirstSrgb(formats, i) ==
    IF i > Len(formats) THEN formats[1]
    ELSE IF is_srgb(formats[i]) THEN formats[i]
    ELSE FirstSrgb(formats, i + 1)

surface_format(caps) == FirstSrgb(caps.formats, 1)

NewConfig(caps, sz) ==
    [usage |-> "RENDER_ATTACHMENT",
     format |-> surface_format(caps),
     width |-> sz[1],
     height |-> sz[2],
     present_mode |-> caps.present_modes[1],
     alpha_mode |-> caps.alpha_modes[1],
     view_formats |-> <<>>,
     desired_maximum_frame_latency |-> 2]

InitialClearColor ==
    [r |-> F64Div(1, 10), g |-> F64Div(2, 10), b |-> F64Div(3, 10), a |-> F64Div(1, 1)]

\* State::new(&window): the size is window.inner_size(), unchecked; the
\* configuration is applied once.  A zero-area configuration is either
\* rejected by the graphics API with a fatal error or accepted, depending on
\* the backend.
Init ==
    \E sz \in Sizes, caps \in Capabilities :
        /\ window_size = sz
        /\ size = sz
        /\ config = NewConfig(caps, sz)
        /\ surface_config = NewConfig(caps, sz)
        /\ clear_color = InitialClearColor
        /\ phase \in (IF sz[1] = 0 \/ sz[2] = 0 THEN {"running", "panicked"}
                      ELSE {"running"})
        /\ redraw_requested = FALSE
        /\ event = <<"Init", sz>>
        /\ tick = 0
        /\ configures = 1
        /\ frame = <<>>
        /\ ret = "none"

----------------------------------------------------------------------------
(* State::resize *)

\* resize without the surface.configure call
resize_no_configure(new_size) ==
    IF new_size[1] > 0 /\ new_size[2] > 0
    THEN /\ size' = new_size
         /\ config' = [config EXCEPT !.width = new_size[1], !.height = new_size[2]]
         /\ UNCHANGED surface_config
         /\ configures' = 0
    ELSE /\ UNCHANGED <<size, config, surface_config>>
         /\ configures' = 0

\* resize guarded by || instead of &&
resize_either_nonzero(new_size) ==
    IF new_size[1] > 0 \/ new_size[2] > 0
    THEN /\ size' = new_size
         /\ config' = [config EXCEPT !.width = new_size[1], !.height = new_size[2]]
         /\ surface_config' = [config EXCEPT !.width = new_size[1],
                                             !.height = new_size[2]]
         /\ configures' = 1
    ELSE /\ UNCHANGED <<size, config, surface_config>>
         /\ configures' = 0

\* resize that stores the size and forgets the configuration's height
resize_width_only(new_size) ==
    IF new_size[1] > 0 /\ new_size[2] > 0
    THEN /\ size' = new_size
         /\ config' = [config EXCEPT !.width = new_size[1]]
         /\ surface_config' = [config EXCEPT !.width = new_size[1]]
         /\ configures' = 1
    ELSE /\ UNCHANGED <<size, config, surface_config>>
         /\ configures' = 0

\* resize that rebuilds the configuration with a fixed format
resize_new_format(new_size) ==
    IF new_size[1] > 0 /\ new_size[2] > 0
    THEN /\ size' = new_size
         /\ config' = [config EXCEPT !.width = new_size[1], !.height = new_size[2],
                                     !.format = "Bgra8Unorm"]
         /\ surface_config' = [config EXCEPT !.width = new_size[1],
                                             !.height = new_size[2],
                                             !.format = "Bgra8Unorm"]
         /\ configures' = 1
    ELSE /\ UNCHANGED <<size, config, surface_config>>
         /\ configures' = 0

resize(new_size) ==
    IF new_size[1] > 0 /\ new_size[2] > 0
    THEN /\ size' = new_size
         /\ config' = [config EXCEPT !.width = new_size[1], !.height = new_size[2]]
         /\ surface_config' = [config EXCEPT !.width = new_size[1],
                                             !.height = new_size[2]]
         /\ configures' = 1
    ELSE /\ UNCHANGED <<size, config, surface_config>>
         /\ configures' = 0

----------------------------------------------------------------------------
(* State::input *)

\* input dividing both coordinates by the width
InputColor_width_twice(position, sz) ==
    [r |-> F64Div(position[1], sz[1]),
     g |-> F64Div(position[2], sz[1]),
     b |-> F64Div(3, 10),
     a |-> F64Div(1, 1)]

InputColor(position, sz) ==
    [r |-> F64Div(position[1], sz[1]),
     g |-> F64Div(position[2], sz[2]),
     b |-> F64Div(3, 10),
     a |-> F64Div(1, 1)]

input(position) ==
    /\ clear_color' = InputColor(position, size)
    /\ ret' = TRUE

----------------------------------------------------------------------------
(* State::render *)

\* render binding the index buffer after the render pass scope has ended
RenderCommands_late_bind(color) ==
    << <<"begin_render_pass", "Clear", color, "Store">>,
       <<"set_pipeline", "render_pipeline">>,
       <<"set_vertex_buffer", 0, "vertex_buffer">>,
       <<"draw_indexed", <<0, num_indices>>, 0, <<0, 1>>>>,
       <<"end_render_pass">>,
       <<"set_index_buffer", "index_buffer", "Uint16">>,
       <<"submit">>,
       <<"present">> >>

\* the commands recorded between begin_render_pass and the end of its scope,
\* then the queue submission and the presentation
RenderCommands(color) ==
    << <<"begin_render_pass", "Clear", color, "Store">>,
       <<"set_pipeline", "render_pipeline">>,
       <<"set_vertex_buffer", 0, "vertex_buffer">>,
       <<"set_index_buffer", "index_buffer", "Uint16">>,
       <<"draw_indexed", <<0, num_indices>>, 0, <<0, 1>>>>,
       <<"end_render_pass">>,
       <<"submit">>,
       <<"present">> >>

\* get_current_texture().unwrap() panics on every Err; otherwise the frame is
\* encoded, submitted and presented and Ok(()) is returned
render(acquired) ==
    IF acquired = "Ok"
    THEN [outcome |-> "Ok", frame |-> RenderCommands(clear_color)]
    ELSE [outcome |-> "panic", frame |-> <<>>]

----------------------------------------------------------------------------
(* run: the event loop closure *)

Handled(kind, arg) ==
    /\ event' = <<kind, arg>>
    /\ tick' = 1 - tick

\* CloseRequested, or KeyboardInput with the Backspace key
ExitRequested ==
    /\ phase = "running"
    /\ phase' = "exited"
    /\ Handled("CloseRequested", "none")
    /\ configures' = 0
    /\ frame' = <<>>
    /\ ret' = "none"
    /\ UNCHANGED <<window_size, size, config, clear_color, surface_config,
                   redraw_requested>>

CursorMoved ==
    /\ phase = "running"
    /\ \E position \in Positions :
        /\ input(position)
        /\ Handled("CursorMoved", position)
    /\ configures' = 0
    /\ frame' = <<>>
    /\ UNCHANGED <<phase, window_size, size, config, surface_config, redraw_requested>>

Resized ==
    /\ phase = "running"
    /\ \E physical_size \in Sizes :
        /\ window_size' = physical_size
        /\ resize(physical_size)
        /\ Handled("Resized", physical_size)
    /\ frame' = <<>>
    /\ ret' = "none"
    /\ UNCHANGED <<phase, clear_color, redraw_requested>>

\* the window id always matches: the program creates a single window
RedrawRequested ==
    /\ phase = "running"
    /\ redraw_requested
    /\ redraw_requested' = FALSE
    /\ \E acquired \in Acquisitions :
        LET result == render(acquired) IN
        /\ Handled("RedrawRequested", acquired)
        /\ frame' = result.frame
        /\ ret' = (IF result.outcome = "panic" THEN "none" ELSE result.outcome)
        /\ CASE result.outcome = "panic" ->
                  /\ phase' = "panicked"
                  /\ configures' = 0
                  /\ UNCHANGED <<size, config, surface_config>>
             [] result.outcome = "Ok" ->
                  /\ configures' = 0
                  /\ UNCHANGED <<phase, size, config, surface_config>>
             [] result.outcome = "Lost" ->
                  /\ resize(size)
                  /\ UNCHANGED phase
             [] result.outcome = "OutOfMemory" ->
                  /\ phase' = "exited"
                  /\ configures' = 0
                  /\ UNCHANGED <<size, config, surface_config>>
             [] OTHER ->
                  /\ configures' = 0
                  /\ UNCHANGED <<phase, size, config, surface_config>>
    /\ UNCHANGED <<window_size, clear_color>>

AboutToWait ==
    /\ phase = "running"
    /\ redraw_requested' = TRUE
    /\ Handled("AboutToWait", "none")
    /\ configures' = 0
    /\ frame' = <<>>
    /\ ret' = "none"
    /\ UNCHANGED <<phase, window_size, size, config, clear_color, surface_config>>

Next ==
    \/ ExitRequested
    \/ CursorMoved
    \/ Resized
    \/ RedrawRequested
    \/ AboutToWait

Spec == Init /\ [][Next]_vars

----------------------------------------------------------------------------
(* Properties *)

NonZero(sz) == sz[1] > 0 /\ sz[2] > 0

\* the value of the fraction f equals x / w
IsQuotient(f, x, w) == f[2] > 0 /\ f[1] * w = x * f[2]

Color(r, g, b, a) == [r |-> r, g |-> g, b |-> b, a |-> a]

\* State::new failed: the process ended before the event loop started
InitFailed == event[1] = "Init" /\ phase = "panicked"

\* C1: after resize(w, h) with w > 0 and h > 0 the configuration's width and
\* height are w and h, the stored size is (w, h), and the surface has been
\* configured exactly once, with that configuration.
C1_ResizeNonZero ==
    (event[1] = "Resized" /\ NonZero(event[2])) =>
        /\ config.width = event[2][1]
        /\ config.height = event[2][2]
        /\ size = event[2]
        /\ configures = 1
        /\ surface_config = config

C1_Witness ==
    /\ event = <<"Resized", <<1, 2>>>>
    /\ size = <<1, 2>>
    /\ configures = 1

\* C2: resize(w, h) with w = 0 or h = 0 leaves the stored size, the whole
\* configuration, the clear color and the surface as they were, and does not
\* configure the surface.
C2_ResizeZeroNoOp ==
    [][(event'[1] = "Resized" /\ tick' # tick /\ ~NonZero(event'[2])) =>
          /\ size' = size
          /\ config' = config
          /\ clear_color' = clear_color
          /\ surface_config' = surface_config
          /\ configures' = 0]_vars

C2_Witness ==
    /\ event = <<"Resized", <<0, 1>>>>
    /\ size = <<2, 2>>
    /\ config.width = 2
    /\ configures = 0

\* C3: the configuration's (width, height) always equals the stored size,
\* and equals the size the window reported last whenever that size is
\* non-zero in both dimensions.
C3_ConfigMatchesSize ==
    /\ <<config.width, config.height>> = size
    /\ NonZero(window_size) => <<config.width, config.height>> = window_size

C3_Witness ==
    /\ event = <<"RedrawRequested", "Ok">>
    /\ window_size = <<2, 1>>
    /\ size = <<2, 1>>
    /\ clear_color # InitialClearColor

\* C4: when acquiring the surface texture fails, render() returns the error
\* to the caller instead of aborting; nothing is submitted or presented.
C4_RenderReturnsError ==
    (event[1] = "RedrawRequested" /\ event[2] # "Ok") =>
        /\ phase # "panicked"
        /\ ret = event[2]
        /\ frame = <<>>

\* C5: on 'surface lost' the event loop re-applies the current configuration
\* to the surface (size and configuration values unchanged), presents no
\* frame and keeps running.
C5_LostReconfigures ==
    (event[1] = "RedrawRequested" /\ event[2] = "Lost") =>
        /\ phase = "running"
        /\ configures = 1
        /\ surface_config = config
        /\ <<config.width, config.height>> = size
        /\ frame = <<>>

\* C6: a redraw ends the application if and only if acquisition failed with
\* 'out of memory' (the event loop is asked to exit); in every other case the
\* process neither aborts nor exits.
C6_ExitIffOutOfMemory ==
    event[1] = "RedrawRequested" =>
        /\ (phase = "exited") <=> (event[2] = "OutOfMemory")
        /\ (event[2] # "OutOfMemory") => phase = "running"

\* C7: for a pointer position inside [0, width) x [0, height), input sets the
\* clear color to (x/width, y/height, 0.3, 1.0) and returns true; it leaves
\* the stored size and the configuration alone; the same position applied
\* twice gives the same color; with size 800x600, (0,0) gives (0, 0, 0.3, 1)
\* and (800,600) gives (1, 1, 0.3, 1).
C7_InputState ==
    event[1] = "CursorMoved" =>
        LET x == event[2][1]
            y == event[2][2]
        IN /\ (0 <= x /\ x < size[1] /\ 0 <= y /\ y < size[2]) =>
                  /\ IsQuotient(clear_color.r, x, size[1])
                  /\ IsQuotient(clear_color.g, y, size[2])
                  /\ clear_color.b = <<3, 10>>
                  /\ clear_color.a = <<1, 1>>
                  /\ ret = TRUE
           /\ (size = <<800, 600>> /\ event[2] = <<0, 0>>) =>
                  clear_color = Color(<<0, 1>>, <<0, 1>>, <<3, 10>>, <<1, 1>>)
           /\ (size = <<800, 600>> /\ event[2] = <<800, 600>>) =>
                  clear_color = Color(<<1, 1>>, <<1, 1>>, <<3, 10>>, <<1, 1>>)

C7_InputStep ==
    (event'[1] = "CursorMoved" /\ tick' # tick) =>
        /\ size' = size
        /\ config' = config
        /\ surface_config' = surface_config
        /\ (event[1] = "CursorMoved" /\ event'[2] = event[2]) =>
               clear_color' = clear_color

C7_Input == []C7_InputState /\ [][C7_InputStep]_vars

C7_Witness ==
    /\ event = <<"CursorMoved", <<1, 0>>>>
    /\ size = <<2, 1>>
    /\ clear_color = Color(<<1, 2>>, <<0, 1>>, <<3, 10>>, <<1, 1>>)

\* C8: no resize, input or render changes the configuration's format,
\* present mode or alpha mode (nor any field other than width and height).
C8_ConfigModesFixed ==
    [][/\ config'.format = config.format
       /\ config'.present_mode = config.present_mode
       /\ config'.alpha_mode = config.alpha_mode
       /\ config' = [config EXCEPT !.width = config'.width,
                                   !.height = config'.height]]_vars

C8_Witness ==
    /\ event = <<"RedrawRequested", "Ok">>
    /\ config.format = "Rgba8UnormSrgb"
    /\ config.alpha_mode = "PreMultiplied"
    /\ window_size = <<0, 2>>
    /\ size = <<800, 600>>

\* position of the first command named op in the frame, 0 if there is none
RECURSIVE IndexOf(_, _, _)
IndexOf(f, op, i) ==
    IF i > Len(f) THEN 0
    ELSE IF f[i][1] = op THEN i
    ELSE IndexOf(f, op, i + 1)

Count(f, op) == Cardinality({i \in 1..Len(f) : f[i][1] = op})

\* C9: a render() that acquires a texture issues, once each and in this
\* order: a render pass clearing to the state's clear color, set_pipeline,
\* set_vertex_buffer at slot 0, set_index_buffer (Uint16), draw_indexed over
\* 0..9 with one instance, end of the pass, submit, present.  The clear color
\* is the one set by the most recent pointer move, or the initial one.
C9_FrameState ==
    (event[1] = "RedrawRequested" /\ event[2] = "Ok") =>
        /\ Len(frame) = 8
        /\ \A op \in {"begin_render_pass", "set_pipeline", "set_vertex_buffer",
                      "set_index_buffer", "draw_indexed", "end_render_pass",
                      "submit", "present"} : Count(frame, op) = 1
        /\ frame[1] = <<"begin_render_pass", "Clear", clear_color, "Store">>
        /\ frame[2][1] = "set_pipeline"
        /\ frame[3] = <<"set_vertex_buffer", 0, "vertex_buffer">>
        /\ frame[4] = <<"set_index_buffer", "index_buffer", "Uint16">>
        /\ frame[5] = <<"draw_indexed", <<0, 9>>, 0, <<0, 1>>>>
        /\ \A op \in {"set_pipeline", "set_vertex_buffer", "set_index_buffer",
                      "draw_indexed"} :
               /\ IndexOf(frame, "begin_render_pass", 1) < IndexOf(frame, op, 1)
               /\ IndexOf(frame, op, 1) < IndexOf(frame, "end_render_pass", 1)
        /\ IndexOf(frame, "end_render_pass", 1) < IndexOf(frame, "submit", 1)
        /\ IndexOf(frame, "submit", 1) < IndexOf(frame, "present", 1)

C9_ColorStep ==
    /\ (event'[1] # "CursorMoved") => clear_color' = clear_color
    /\ (event[1] = "Init") => clear_color = Color(<<1, 10>>, <<1, 5>>, <<3, 10>>, <<1, 1>>)

C9_RenderOrder == []C9_FrameState /\ [][C9_ColorStep]_vars

C9_Witness ==
    /\ event = <<"RedrawRequested", "Ok">>
    /\ Len(frame) = 8
    /\ frame[1][3] = Color(<<1, 2>>, <<1, 1>>, <<3, 10>>, <<1, 1>>)
    /\ frame[8] = <<"present">>

====
